---- MODULE Spec2Model ----
(***************************************************************************)
(* GPUVectorIndex (python-ai/tdbai/vector_gpu.py): an IVF-PQ vector index  *)
(* kept on the host (cpu_index), cloned to the devices (gpu_index) after   *)
(* every train and add, with a list-backed stand-in when the faiss library *)
(* cannot be imported.                                                     *)
(*                                                                         *)
(* Vectors are modelled as a direction on the unit circle and a magnitude: *)
(* the index normalises every vector it stores or searches for, so only    *)
(* the direction of a vector decides its neighbours.  With the four        *)
(* compass directions the squared L2 distance of two unit vectors is       *)
(* exactly twice their circular distance (0, 2 or 4).  A stored entry is   *)
(* kept as its cluster and its PQ code; a search measures the distance to  *)
(* the centroid plus the codebook entry, in integer coordinates.           *)
(*                                                                         *)
(* Spec: two threads, one step of a call at a time.  ApiSpec: one caller,  *)
(* one whole call at a time.  PersistSpec: with save and load.  DeviceSpec:*)
(* with devices whose memory runs out.  RecallSpec: with samples that give *)
(* a codebook other than zero, and searches over every nprobe.             *)
(* ShardSpec: with two or more devices.  LockSpec: the writers of Spec     *)
(* under fair scheduling, with devices whose memory runs out.  ZeroSpec:   *)
(* with batches that hold an all-zero row.                                 *)
(*                                                                         *)
(* LumaStreamClient (python-ai/tdbai/ingestion.py): events are rows of the *)
(* system_events table; a polling consumer fetches the unprocessed ones    *)
(* and marks them processed.  ConsumeSpec: subscriber, emit and the passes *)
(* of the consumer, one statement group at a time.  SurviveSpec: the       *)
(* consumer under fair scheduling on a database that comes and goes.       *)
(***************************************************************************)
EXTENDS Integers, Sequences, FiniteSets, TLC

\* ---------------------------------------------------------------- bounds
NList == 2            \* config.nlist: number of IVF clusters
NBits == 0            \* config.nbits: a PQ codebook holds 2^nbits entries
Dim == 2              \* config.dim: the length of the vectors the index is built for
ConfigNProbe == 2     \* config.nprobe: clusters probed when the caller gives none
MaxGpus == 1          \* config.num_gpus ranges over 0..MaxGpus
MaxMag == 2           \* magnitudes of the input vectors
MaxK == 2             \* k of a search ranges over 1..MaxK
MaxEntries == 12      \* vectors one index holds in the sequential specification
MaxAdds == 2          \* add calls of one run of the sequential specification
MaxShared == 2        \* vectors the index shared by the threads holds
MaxShards == 2        \* config.num_gpus of an index split over devices: 2..MaxShards
MaxEmits == 2         \* events emitted in one run of the event consumer

\* ------------------------------------------------------- program constants
OVERFETCH == 10       \* search_with_filter searches for k * 10 candidates
INF == 1000000        \* np.inf, the distance search_with_filter pads with
FLT_MAX == 999999     \* the distance faiss gives a result slot without a match
NO_ID == -1           \* the id of a padded slot (faiss and search_with_filter)

\* ---------------------------------------------------------------- vectors
Dirs == 0 .. 3
Threads == {1, 2}

\* A row of `dim` numbers pointing in direction d with length m; the rows the
\* callers pass have the configured length unless said otherwise.
VecOfDim(d, m, dim) == [dir |-> d, mag |-> m, dim |-> dim]
Vec(d, m) == VecOfDim(d, m, Dim)

Min2(a, b) == IF a <= b THEN a ELSE b
Max2(a, b) == IF a >= b THEN a ELSE b

\* faiss.normalize_L2, one row: scale to unit length; a zero row is left as it is.
Normalize(v) == IF v.mag = 0 THEN v ELSE [v EXCEPT !.mag = 1]

NormalizeAll(vs) == [i \in 1 .. Len(vs) |-> Normalize(vs[i])]

Circ(a, b) == LET d == IF a >= b THEN a - b ELSE b - a IN Min2(d, 4 - d)

\* Squared L2 distance of two normalised vectors.
Dist(u, v) ==
    IF u.mag = 0 /\ v.mag = 0 THEN 0
    ELSE IF u.mag = 0 \/ v.mag = 0 THEN 1
    ELSE 2 * Circ(u.dir, v.dir)

\* The coordinates of a normalised vector, and arithmetic on coordinates.
XY(v) ==
    IF v.mag = 0 THEN <<0, 0>>
    ELSE CASE v.dir = 0 -> <<0, 1>>
           [] v.dir = 1 -> <<1, 0>>
           [] v.dir = 2 -> <<0, -1>>
           [] OTHER -> <<-1, 0>>
Minus(a, b) == <<a[1] - b[1], a[2] - b[2]>>
Norm2(a) == a[1] * a[1] + a[2] * a[2]

\* Optional arguments (None, or a value).
None == [some |-> FALSE, val |-> <<>>]
Some(x) == [some |-> TRUE, val |-> <<x>>]
Get(o) == o.val[1]

\* ------------------------------------------------- the faiss library's index
\* What the calls of vector_gpu.py into faiss do: an IndexIVFPQ over an
\* IndexFlatL2 quantizer, and its clone on the devices.
KSub == 2 ^ NBits

\* GPUIndexConfig: the fields that shape the stored data (nlist, nbits, nprobe
\* and num_gpus are the same in every config of a run).
Config(dim, m) == [dim |-> dim, m |-> m]
DefaultConfig == Config(Dim, 1)

\* faiss.IndexIVFPQ(quantizer, dim, nlist, m, nbits): untrained, empty, nprobe 1.
CpuOf(config) ==
    [is_trained |-> FALSE, centroids |-> <<>>, codebook |-> <<>>, entries |-> <<>>,
     nprobe |-> 1, d |-> config.dim, m |-> config.m]
CpuNew == CpuOf(DefaultConfig)

\* self.gpu_index = None
GpuNone ==
    [present |-> FALSE, is_trained |-> FALSE, centroids |-> <<>>, codebook |-> <<>>,
     entries |-> <<>>, nprobe |-> 1, d |-> 0, m |-> 0]

\* The assert of faiss's Python wrappers of train, add and search: the rows
\* have the length the index was built for.
RowsFit(ix, vecs) == \A j \in 1 .. Len(vecs) : vecs[j].dim = ix.d

\* cpu_index.train raises unless there are at least as many training points as
\* clusters, for the coarse quantizer (skipped once it holds its nlist centroids)
\* and for the PQ codebooks.
FaissCanTrain(cpu, n) == (cpu.centroids # <<>> \/ n >= NList) /\ n >= KSub

\* The centroid tables k-means may end with: nlist distinct training points, in
\* any order (the clustering starts from a random permutation of the sample).
CentroidChoices(sample) ==
    LET n == Len(sample)
        picks == {f \in [1 .. NList -> 1 .. n] :
                     \A i, j \in 1 .. NList : i # j => f[i] # f[j]}
    IN  {[i \in 1 .. NList |-> sample[f[i]]] : f \in picks}

\* An assignment that takes the last of the nearest centroids.
AssignLastOfEquals(cents, v) ==
    LET n == Len(cents)
        c == CHOOSE a \in 1 .. n : \A b \in 1 .. n :
                 \/ Dist(v, cents[a]) < Dist(v, cents[b])
                 \/ Dist(v, cents[a]) = Dist(v, cents[b]) /\ a >= b
    IN  c - 1

\* The quantizer's assignment: the cluster (0-based) of the nearest centroid,
\* the first one met among equals.
Assign(cents, v) ==
    LET n == Len(cents)
        c == CHOOSE a \in 1 .. n : \A b \in 1 .. n :
                 \/ Dist(v, cents[a]) < Dist(v, cents[b])
                 \/ Dist(v, cents[a]) = Dist(v, cents[b]) /\ a <= b
    IN  c - 1

\* What product quantization encodes: the vector minus its cluster's centroid.
Residual(cents, v) == Minus(XY(v), XY(cents[Assign(cents, v) + 1]))

\* The codebooks the PQ training may end with: 2^nbits of the residuals of the
\* training points, in any order (exact when the residuals are all equal or as
\* many as the codebook has entries, as for every sample used here).
CodebookChoices(cents, sample) ==
    LET n == Len(sample)
        picks == {f \in [1 .. KSub -> 1 .. n] :
                     \A i, j \in 1 .. KSub : i # j => f[i] # f[j]}
    IN  {[i \in 1 .. KSub |-> Residual(cents, sample[f[i]])] : f \in picks}

\* cpu_index.train(vectors), when it does not raise: every index it may leave.
\* A coarse quantizer that holds its centroids is kept; the codebook is
\* trained anew by every call.
FaissTrain(cpu, sample) ==
    LET tables == IF cpu.centroids # <<>> THEN {cpu.centroids}
                  ELSE CentroidChoices(sample)
    IN  UNION {{[cpu EXCEPT !.is_trained = TRUE, !.centroids = c, !.codebook = b] :
                   b \in CodebookChoices(c, sample)} : c \in tables}

\* The code of a residual: the nearest codebook entry (0-based), the first one
\* met among equals.
Encode(codebook, r) ==
    LET n == Len(codebook)
        c == CHOOSE a \in 1 .. n : \A b \in 1 .. n :
                 \/ Norm2(Minus(r, codebook[a])) < Norm2(Minus(r, codebook[b]))
                 \/ Norm2(Minus(r, codebook[a])) = Norm2(Minus(r, codebook[b])) /\ a <= b
    IN  c - 1

\* An add that puts the new entries in front of the stored ones.
FaissAddInFront(cpu, vecs, ids) ==
    LET n0 == Len(cpu.entries)
        new == [j \in 1 .. Len(vecs) |->
                  [id |-> IF ids.some THEN Get(ids)[j] ELSE n0 + j - 1,
                   cluster |-> Assign(cpu.centroids, vecs[j]),
                   code |-> Encode(cpu.codebook, Residual(cpu.centroids, vecs[j])),
                   vec |-> vecs[j]]]
    IN  [cpu EXCEPT !.entries = new \o @]

\* cpu_index.add(vectors) / cpu_index.add_with_ids(vectors, ids): one entry per
\* row, under the given id or under the insertion sequence number.  The index
\* keeps the cluster and the code of a row; vec is the row itself, which only
\* the statements about the true neighbours read.
FaissAdd(cpu, vecs, ids) ==
    LET n0 == Len(cpu.entries)
        new == [j \in 1 .. Len(vecs) |->
                  [id |-> IF ids.some THEN Get(ids)[j] ELSE n0 + j - 1,
                   cluster |-> Assign(cpu.centroids, vecs[j]),
                   code |-> Encode(cpu.codebook, Residual(cpu.centroids, vecs[j])),
                   vec |-> vecs[j]]]
    IN  [cpu EXCEPT !.entries = @ \o new]

\* faiss.index_cpu_to_gpu_multiple_py(resources, cpu_index, co): a new device
\* index holding what the host index holds now.
GpuClone(cpu) ==
    [present |-> TRUE, is_trained |-> cpu.is_trained, centroids |-> cpu.centroids,
     codebook |-> cpu.codebook, entries |-> cpu.entries, nprobe |-> cpu.nprobe,
     d |-> cpu.d, m |-> cpu.m]

\* a % n as C++ computes it: the sign of a.
CRem(a, n) == IF a >= 0 THEN a % n ELSE 0 - ((0 - a) % n)

\* co.shard = True with the cloner's default shard_type: on n > 1 devices the
\* clone is split by id, device s holding the entries whose id % n is s.
ShardOf(e, n) == CRem(e.id, n)

\* The entries each device of a clone over n devices holds.
ShardEntries(gpu, n) ==
    [s \in 0 .. n - 1 |->
        IF n = 1 THEN gpu.entries
        ELSE SelectSeq(gpu.entries, LAMBDA e : ShardOf(e, n) = s)]

\* The clusters one query probes: the nprobe nearest centroids, nearest first.
Probes(cents, q, nprobe) ==
    LET n == Len(cents)
        Before(a, b) == \/ Dist(q, cents[a]) < Dist(q, cents[b])
                        \/ Dist(q, cents[a]) = Dist(q, cents[b]) /\ a < b
        rank(a) == Cardinality({b \in 1 .. n : Before(b, a)}) + 1
    IN  [r \in 1 .. Min2(nprobe, n) |-> (CHOOSE a \in 1 .. n : rank(a) = r) - 1]

RECURSIVE ScanOrder(_, _)
\* The entries of the probed inverted lists, in the order they are scanned.
ScanOrder(entries, probes) ==
    IF probes = <<>> THEN <<>>
    ELSE SelectSeq(entries, LAMBDA e : e.cluster = Head(probes))
             \o ScanOrder(entries, Tail(probes))

RECURSIVE InsertByDistance(_, _)
\* A (distance, id) pair put into a list kept in increasing distance, before
\* the pairs at the same distance.
InsertByDistance(p, s) ==
    IF s = <<>> \/ p[1] <= Head(s)[1] THEN <<p>> \o s
    ELSE <<Head(s)>> \o InsertByDistance(p, Tail(s))

RECURSIVE ByDistance(_)
\* The pairs in increasing distance, pairs at one distance in their given order.
ByDistance(s) ==
    IF s = <<>> THEN <<>> ELSE InsertByDistance(Head(s), ByDistance(Tail(s)))

\* The distance the index computes from a query to a stored entry: to the
\* entry as its code gives it back, the centroid of its cluster plus the
\* codebook entry of its code.
ApproxDist(ix, q, e) ==
    Norm2(Minus(Minus(XY(q), XY(ix.centroids[e.cluster + 1])), ix.codebook[e.code + 1]))

\* One row of gpu_index.search(queries, k): the k scanned entries nearest to the
\* query, nearest first; slots without a match hold (FLT_MAX, -1).
SearchRow(gpu, q, k) ==
    LET cand == ScanOrder(gpu.entries, Probes(gpu.centroids, q, gpu.nprobe))
        best == ByDistance([i \in 1 .. Len(cand) |->
                              <<ApproxDist(gpu, q, cand[i]), cand[i].id>>])
    IN  [s \in 1 .. k |-> IF s <= Len(best) THEN best[s] ELSE <<FLT_MAX, NO_ID>>]

\* gpu_index.search(queries, k)
FaissSearch(gpu, queries, k) ==
    [i \in 1 .. Len(queries) |-> SearchRow(gpu, queries[i], k)]

\* ------------------------------------------------------- the index object
\* GPUVectorIndex.__init__: is_trained False; without faiss an empty
\* _mock_vectors list, with faiss an empty cpu_index and gpu_index None.
NewIndexOf(config) ==
    [config |-> config, is_trained |-> FALSE, cpu_index |-> CpuOf(config),
     gpu_index |-> GpuNone, mock_vectors |-> <<>>]
NewIndex == NewIndexOf(DefaultConfig)

\* What a call gives its caller: how it ended and, for a search, the rows of
\* (distance, id) pairs.
Returned(rows) == [status |-> "ok", out |-> rows]
Raised(e) == [status |-> e, out |-> <<>>]
NoResult == [status |-> "running", out |-> <<>>]

\* add: raise ValueError("Index must be trained before adding vectors")
UntrainedIndexError == "ValueError: Index must be trained before adding vectors"
\* cpu_index.train: fewer training points than clusters
InsufficientTrainingDataError == "RuntimeError: faiss: number of training points"
\* cpu_index.add on a host index that is not trained
FaissNotTrained == "RuntimeError: faiss: index not trained"
\* self.gpu_index.nprobe = nprobe while gpu_index is None
AttributeError == "AttributeError: NoneType has no attribute nprobe"
\* faiss's train, add or search given rows of another length than the index's
ShapeError == "AssertionError: faiss: d == self.d"
\* faiss.read_index of a path nothing was written to
FileError == "RuntimeError: faiss: could not open file"

\* _sync_to_gpu: with faiss and at least one device resource, replace gpu_index
\* by a clone of cpu_index; otherwise nothing.
SyncToGpu(ix, faiss, gpus) ==
    IF faiss /\ gpus > 0
    THEN [ix EXCEPT !.gpu_index = GpuClone(ix.cpu_index)]
    ELSE ix

\* index_cpu_to_gpu_multiple_py raises when the devices lack the memory for
\* the clone; gpu_index then keeps what it held.
DeviceOutOfMemory == "RuntimeError: faiss: cudaMalloc error out of memory"
SyncFails(faiss, gpus, room) == faiss /\ gpus > 0 /\ ~room

\* train, lines 73-81: what it does to the host side, and whether it goes on.
\* Without faiss it only sets is_trained and returns.
TrainHost(ix, faiss, sample) ==
    IF ~faiss
    THEN {[ix |-> [ix EXCEPT !.is_trained = TRUE], res |-> Returned(<<>>)]}
    ELSE IF ~RowsFit(ix.cpu_index, sample)
    THEN {[ix |-> ix, res |-> Raised(ShapeError)]}
    ELSE IF ~FaissCanTrain(ix.cpu_index, Len(sample))
    THEN {[ix |-> ix, res |-> Raised(InsufficientTrainingDataError)]}
    ELSE {[ix |-> [ix EXCEPT !.cpu_index = c], res |-> NoResult] :
             c \in FaissTrain(ix.cpu_index, NormalizeAll(sample))}

\* train, line 83
SetTrained(ix) == [ix EXCEPT !.is_trained = TRUE]

\* train as one call.
Train(ix, faiss, gpus, room, sample) ==
    {IF o.res # NoResult THEN o
     ELSE IF SyncFails(faiss, gpus, room)
     THEN [ix |-> o.ix, res |-> Raised(DeviceOutOfMemory)]
     ELSE [ix |-> SetTrained(SyncToGpu(o.ix, faiss, gpus)), res |-> Returned(<<>>)] :
        o \in TrainHost(ix, faiss, sample)}

\* add without its state check.
AddCheckSkipped(ix) == NoResult

\* add, lines 88-89: the state check.
AddCheck(ix) == IF ~ix.is_trained THEN Raised(UntrainedIndexError) ELSE NoResult

DegenerateVectorError == "DegenerateVectorError"
\* An add that raises when a row of its batch is all zero.
AddHostRejectsZero(ix, faiss, vectors, ids) ==
    IF \E i \in 1 .. Len(vectors) : vectors[i].mag = 0
    THEN [ix |-> ix, res |-> Raised(DegenerateVectorError)]
    ELSE IF ~faiss
    THEN [ix |-> [ix EXCEPT !.mock_vectors = @ \o vectors], res |-> Returned(<<>>)]
    ELSE IF ~RowsFit(ix.cpu_index, vectors)
    THEN [ix |-> ix, res |-> Raised(ShapeError)]
    ELSE IF ~ix.cpu_index.is_trained
    THEN [ix |-> ix, res |-> Raised(FaissNotTrained)]
    ELSE [ix |-> [ix EXCEPT !.cpu_index =
                     FaissAdd(@, NormalizeAll(vectors), ids)],
          res |-> NoResult]

\* add, lines 91-103: the host side. Without faiss the raw rows are appended to
\* _mock_vectors and the call returns.
AddHost(ix, faiss, vectors, ids) ==
    IF ~faiss
    THEN [ix |-> [ix EXCEPT !.mock_vectors = @ \o vectors], res |-> Returned(<<>>)]
    ELSE IF ~RowsFit(ix.cpu_index, vectors)
    THEN [ix |-> ix, res |-> Raised(ShapeError)]
    ELSE IF ~ix.cpu_index.is_trained
    THEN [ix |-> ix, res |-> Raised(FaissNotTrained)]
    ELSE [ix |-> [ix EXCEPT !.cpu_index =
                     FaissAdd(@, NormalizeAll(vectors), ids)],
          res |-> NoResult]

\* add as one call.
Add(ix, faiss, gpus, room, vectors, ids) ==
    IF AddCheck(ix) # NoResult THEN [ix |-> ix, res |-> AddCheck(ix)]
    ELSE LET o == AddHost(ix, faiss, vectors, ids)
         IN  IF o.res # NoResult THEN o
             ELSE IF SyncFails(faiss, gpus, room)
             THEN [ix |-> o.ix, res |-> Raised(DeviceOutOfMemory)]
             ELSE [ix |-> SyncToGpu(o.ix, faiss, gpus), res |-> Returned(<<>>)]

\* __len__
Size(ix, faiss) ==
    IF ~faiss THEN Len(ix.mock_vectors) ELSE Len(ix.cpu_index.entries)

\* A search that writes its nprobe into the host index as well.
SearchSetOnHost(ix, faiss, queries, k, nprobe) ==
    IF ~faiss
    THEN [ix |-> ix,
          res |-> Returned([i \in 1 .. Len(queries) |-> [s \in 1 .. k |-> <<0, 0>>]])]
    ELSE IF ~ix.gpu_index.present
    THEN [ix |-> ix, res |-> Raised(AttributeError)]
    ELSE [ix |-> [ix EXCEPT !.gpu_index.nprobe =
                     IF nprobe.some THEN Get(nprobe) ELSE ConfigNProbe,
                            !.cpu_index.nprobe =
                     IF nprobe.some THEN Get(nprobe) ELSE ConfigNProbe],
          res |-> NoResult]

\* search, lines 114-127: without faiss the call returns n rows of k zeros;
\* with faiss the nprobe to use is written into the device index.
SearchSet(ix, faiss, queries, k, nprobe) ==
    IF ~faiss
    THEN [ix |-> ix,
          res |-> Returned([i \in 1 .. Len(queries) |-> [s \in 1 .. k |-> <<0, 0>>]])]
    ELSE IF ~ix.gpu_index.present
    THEN [ix |-> ix, res |-> Raised(AttributeError)]
    ELSE [ix |-> [ix EXCEPT !.gpu_index.nprobe =
                     IF nprobe.some THEN Get(nprobe) ELSE ConfigNProbe],
          res |-> NoResult]

\* search, lines 128-130
SearchRun(ix, queries, k) ==
    IF ~ix.gpu_index.present THEN Raised(AttributeError)
    ELSE IF ~RowsFit(ix.gpu_index, queries) THEN Raised(ShapeError)
    ELSE Returned(FaissSearch(ix.gpu_index, NormalizeAll(queries), k))

\* search as one call.
Search(ix, faiss, queries, k, nprobe) ==
    LET o == SearchSet(ix, faiss, queries, k, nprobe)
    IN  IF o.res # NoResult THEN o
        ELSE [ix |-> o.ix, res |-> SearchRun(o.ix, queries, k)]

\* The filter left out: the first k pairs search gave, whatever their ids.
FilterRowsUnfiltered(rows, k, filter_ids) ==
    [i \in 1 .. Len(rows) |-> [s \in 1 .. k |-> rows[i][s]]]

\* search_with_filter, lines 143-159, on the rows search gave for k * 10: per
\* query the first k pairs whose id is in filter_ids, then (inf, -1).
FilterRows(rows, k, filter_ids) ==
    [i \in 1 .. Len(rows) |->
       LET valid == SelectSeq(rows[i], LAMBDA p : p[2] \in filter_ids)
           n_valid == Min2(Len(valid), k)
       IN  [s \in 1 .. k |-> IF s <= n_valid THEN valid[s] ELSE <<INF, NO_ID>>]]

\* search_with_filter, after its call of search returned or raised.
FilterResult(res, k, filter_ids) ==
    IF res.status # "ok" THEN res ELSE Returned(FilterRows(res.out, k, filter_ids))

\* search_with_filter as one call.
SearchWithFilter(ix, faiss, queries, k, filter_ids) ==
    LET o == Search(ix, faiss, queries, k * OVERFETCH, None)
    IN  [ix |-> o.ix, res |-> FilterResult(o.res, k, filter_ids)]

\* The file save writes: nothing without faiss, else the host index.
NoFile == [written |-> FALSE, cpu_index |-> CpuNew]
Save(ix, faiss, file) ==
    IF faiss THEN [written |-> TRUE, cpu_index |-> ix.cpu_index] ELSE file

\* load: a new index built for the config given; with faiss its host index is
\* replaced by the one read from the file, cloned to the devices, and
\* is_trained set.
Load(file, config, faiss, gpus, room) ==
    IF ~faiss THEN [ix |-> NewIndexOf(config), res |-> Returned(<<>>)]
    ELSE IF ~file.written THEN [ix |-> NewIndexOf(config), res |-> Raised(FileError)]
    ELSE IF SyncFails(faiss, gpus, room)
    THEN [ix |-> NewIndexOf(config), res |-> Raised(DeviceOutOfMemory)]
    ELSE [ix |-> SetTrained(SyncToGpu([NewIndexOf(config) EXCEPT
                                          !.cpu_index = file.cpu_index],
                                      faiss, gpus)),
          res |-> Returned(<<>>)]

\* ------------------------------------------------------------------ state
VARIABLES
    faiss_available,  \* FAISS_AVAILABLE: whether `import faiss` succeeded
    num_gpus,         \* config.num_gpus
    device_room,      \* whether the devices have the memory for a clone of the index
    index,            \* the GPUVectorIndex the callers share
    lock,             \* self._lock: the thread holding it, 0 when free
    pc,               \* per thread: where it is in its call
    call,             \* per thread: the call it makes or made last
    ret,              \* per thread: what that call gave
    disk,             \* the file save writes and load reads
    saved,            \* the index as it was when save was last called
    loaded,           \* the index the last load returned, and the one saved for it
    n_adds            \* add calls made so far by the single caller

\* LumaStreamClient (python-ai/tdbai/ingestion.py)
VARIABLES
    system_events,    \* the system_events table: row i has id i
    handlers,         \* self.handlers: per topic the function registered, if any
    events,           \* _consume_once: the ids fetched and not yet gone through
    consumer,         \* consume_loop: "sleep" between passes, "pass" inside one
    handled,          \* the calls of handlers made so far
    db_up             \* whether the database takes connections and statements

ivars ==
    <<faiss_available, num_gpus, device_room, index, lock, pc, call, ret, disk,
      saved, loaded, n_adds>>
svars == <<system_events, handlers, events, consumer, handled, db_up>>
vars == <<ivars, svars>>

NoCall ==
    [op |-> "none", vectors |-> <<>>, ids |-> None, k |-> 0, nprobe |-> None,
     filter_ids |-> {}, config |-> DefaultConfig]
TrainCall(sample) == [NoCall EXCEPT !.op = "train", !.vectors = sample]
AddCall(vectors, ids) == [NoCall EXCEPT !.op = "add", !.vectors = vectors, !.ids = ids]
SearchCall(queries, k, nprobe) ==
    [NoCall EXCEPT !.op = "search", !.vectors = queries, !.k = k, !.nprobe = nprobe]
FilterCall(queries, k, filter_ids) ==
    [NoCall EXCEPT !.op = "search_with_filter", !.vectors = queries, !.k = k,
                   !.filter_ids = filter_ids]
SaveCall == [NoCall EXCEPT !.op = "save"]
LoadCall(config) == [NoCall EXCEPT !.op = "load", !.config = config]

NotSaved == [called |-> FALSE, ix |-> NewIndex]
NotLoaded == [made |-> FALSE, ix |-> NewIndex, of |-> NotSaved]

\* ------------------------------------------------------- the event stream
FETCH_LIMIT == 10     \* _consume_once: SELECT ... LIMIT 10

Topics == {"ingest", "alert"}
Funcs == {"on_ingest", "on_alert"}
NoFunc == "none"
Msgs == {"new"}
OldMsg == "old"

\* json.dumps(msg), and json.loads of the payload a row gives back.
Dumps(msg) == [json |-> msg]
Loads(payload) == payload.json

\* INSERT INTO system_events (topic, payload): processed defaults to FALSE.
NewRow(topic, msg) == [topic |-> topic, payload |-> Dumps(msg), processed |-> FALSE]

\* Rows an earlier run left in the table: one more than a pass fetches.
Backlog ==
    [i \in 1 .. FETCH_LIMIT + 1 |->
        NewRow(IF i % 2 = 1 THEN "ingest" ELSE "alert", OldMsg)]

\* SELECT id ... WHERE processed = FALSE ORDER BY id ASC
Unprocessed(table) ==
    SelectSeq([i \in 1 .. Len(table) |-> i], LAMBDA i : ~table[i].processed)

\* ... LIMIT 10
Fetch(table) ==
    LET ids == Unprocessed(table)
    IN  SubSeq(ids, 1, Min2(Len(ids), FETCH_LIMIT))

\* LumaStreamClient.__init__: no handlers; the table is there.
StreamInit ==
    /\ system_events = <<>>
    /\ handlers = [t \in Topics |-> NoFunc]
    /\ events = <<>>
    /\ consumer = "sleep"
    /\ handled = <<>>
    /\ db_up = TRUE

Init ==
    /\ StreamInit
    /\ faiss_available \in BOOLEAN
    /\ num_gpus \in 0 .. MaxGpus
    /\ device_room = TRUE
    /\ index = NewIndex
    /\ lock = 0
    /\ pc = [t \in Threads |-> "idle"]
    /\ call = [t \in Threads |-> NoCall]
    /\ ret = [t \in Threads |-> NoResult]
    /\ disk = NoFile
    /\ saved = NotSaved
    /\ loaded = NotLoaded
    /\ n_adds = 0

\* ------------------------------------------------ the calls of the threads
\* A sample of n training vectors.
SampleOfLen(n) == [i \in 1 .. n |-> Vec((i - 1) % 4, 1 + (i % MaxMag))]

SharedSamples == {SampleOfLen(n) : n \in {NList - 1, Max2(NList, KSub)}}
SharedCalls ==
    {TrainCall(s) : s \in SharedSamples}
        \cup {AddCall(<<Vec(0, 2)>>, None), AddCall(<<Vec(1, 1)>>, Some(<<5>>))}
        \cup {SearchCall(<<Vec(0, MaxMag)>>, 1, None),
              SearchCall(<<Vec(0, MaxMag)>>, MaxK, Some(1))}
        \cup {FilterCall(<<Vec(0, MaxMag)>>, 1, {0})}

Writing(t) == pc[t] \in {"train_host", "train_sync", "train_flag",
                         "add_check", "add_host", "add_sync"}
Searching(t) == pc[t] \in {"search_set", "search_run"}

\* Rows the add calls under way will still store.
Pending(t) ==
    IF call[t].op = "add" /\ pc[t] \in {"add_lock", "add_check", "add_host"}
    THEN Len(call[t].vectors) ELSE 0
RECURSIVE SumPending(_)
SumPending(ts) ==
    IF ts = {} THEN 0
    ELSE LET t == CHOOSE x \in ts : TRUE IN Pending(t) + SumPending(ts \ {t})

Finish(t, r) ==
    /\ pc' = [pc EXCEPT ![t] = "done"]
    /\ ret' = [ret EXCEPT ![t] = r]

\* A thread makes one of the given calls of train, add, search or
\* search_with_filter.
CallFrom(t, calls) ==
    /\ pc[t] \in {"idle", "done"}
    /\ \E c \in calls :
        /\ c.op \in {"train", "add", "search", "search_with_filter"}
        /\ c.op = "add" =>
               Size(index, faiss_available) + SumPending(Threads) + Len(c.vectors)
                   <= MaxShared
        /\ call' = [call EXCEPT ![t] = c]
        /\ pc' = [pc EXCEPT ![t] =
                     CASE c.op = "train" -> "train_lock"
                       [] c.op = "add" -> "add_lock"
                       [] OTHER -> "search_set"]
    /\ ret' = [ret EXCEPT ![t] = NoResult]
    /\ UNCHANGED <<svars, faiss_available, num_gpus, device_room, index, lock, disk, saved,
                   loaded, n_adds>>

Call(t) == CallFrom(t, SharedCalls)

\* A lock that never makes a caller wait.
LockIgnored(t) == TRUE

\* `with self._lock:` of train and add: the lock is free.
LockFree(t) == lock = 0
Acquire(t) ==
    /\ pc[t] \in {"train_lock", "add_lock"}
    /\ LockFree(t)
    /\ lock' = t
    /\ pc' = [pc EXCEPT ![t] = IF pc[t] = "train_lock" THEN "train_host" ELSE "add_check"]
    /\ UNCHANGED <<svars, faiss_available, num_gpus, device_room, index, call, ret, disk,
                   saved, loaded, n_adds>>

\* train, lines 73-81
TrainHostStep(t) ==
    /\ pc[t] = "train_host"
    /\ \E o \in TrainHost(index, faiss_available, call[t].vectors) :
        /\ index' = o.ix
        /\ IF o.res = NoResult
           THEN /\ pc' = [pc EXCEPT ![t] = "train_sync"]
                /\ UNCHANGED <<ret, lock>>
           ELSE /\ Finish(t, o.res)
                /\ lock' = 0
    /\ UNCHANGED <<svars, faiss_available, num_gpus, device_room, call, disk, saved, loaded,
                   n_adds>>

\* train, line 82
TrainSyncStep(t) ==
    /\ pc[t] = "train_sync"
    /\ IF SyncFails(faiss_available, num_gpus, device_room)
       THEN /\ Finish(t, Raised(DeviceOutOfMemory))
            /\ lock' = 0
            /\ UNCHANGED index
       ELSE /\ index' = SyncToGpu(index, faiss_available, num_gpus)
            /\ pc' = [pc EXCEPT ![t] = "train_flag"]
            /\ UNCHANGED <<ret, lock>>
    /\ UNCHANGED <<svars, faiss_available, num_gpus, device_room, call, disk, saved, loaded,
                   n_adds>>

\* train, line 83, and the end of the with block
TrainFlagStep(t) ==
    /\ pc[t] = "train_flag"
    /\ index' = SetTrained(index)
    /\ Finish(t, Returned(<<>>))
    /\ lock' = 0
    /\ UNCHANGED <<svars, faiss_available, num_gpus, device_room, call, disk, saved, loaded,
                   n_adds>>

\* An add whose raise leaves the lock held.
AddCheckStepKeepsLock(t) ==
    /\ pc[t] = "add_check"
    /\ IF AddCheck(index) # NoResult
       THEN /\ Finish(t, AddCheck(index))
            /\ UNCHANGED lock
       ELSE /\ pc' = [pc EXCEPT ![t] = "add_host"]
            /\ UNCHANGED <<ret, lock>>
    /\ UNCHANGED <<svars, faiss_available, num_gpus, device_room, index, call, disk, saved,
                   loaded, n_adds>>

\* add, lines 88-89
AddCheckStep(t) ==
    /\ pc[t] = "add_check"
    /\ IF AddCheck(index) # NoResult
       THEN /\ Finish(t, AddCheck(index))
            /\ lock' = 0
       ELSE /\ pc' = [pc EXCEPT ![t] = "add_host"]
            /\ UNCHANGED <<ret, lock>>
    /\ UNCHANGED <<svars, faiss_available, num_gpus, device_room, index, call, disk, saved,
                   loaded, n_adds>>

\* add, lines 91-103
AddHostStep(t) ==
    /\ pc[t] = "add_host"
    /\ LET o == AddHost(index, faiss_available, call[t].vectors, call[t].ids)
       IN  /\ index' = o.ix
           /\ IF o.res = NoResult
              THEN /\ pc' = [pc EXCEPT ![t] = "add_sync"]
                   /\ UNCHANGED <<ret, lock>>
              ELSE /\ Finish(t, o.res)
                   /\ lock' = 0
    /\ UNCHANGED <<svars, faiss_available, num_gpus, device_room, call, disk, saved, loaded,
                   n_adds>>

\* add, line 105, and the end of the with block
AddSyncStep(t) ==
    /\ pc[t] = "add_sync"
    /\ IF SyncFails(faiss_available, num_gpus, device_room)
       THEN /\ Finish(t, Raised(DeviceOutOfMemory))
            /\ UNCHANGED index
       ELSE /\ index' = SyncToGpu(index, faiss_available, num_gpus)
            /\ Finish(t, Returned(<<>>))
    /\ lock' = 0
    /\ UNCHANGED <<svars, faiss_available, num_gpus, device_room, call, disk, saved, loaded,
                   n_adds>>

\* The k and nprobe search is called with: search_with_filter calls
\* self.search(queries, k * 10).
SearchK(c) == IF c.op = "search_with_filter" THEN c.k * OVERFETCH ELSE c.k
SearchNProbe(c) == IF c.op = "search_with_filter" THEN None ELSE c.nprobe
AfterSearch(c, r) ==
    IF c.op = "search_with_filter" THEN FilterResult(r, c.k, c.filter_ids) ELSE r

\* A search that waits while another thread is searching.
SearchSetStepAlone(t) ==
    /\ pc[t] = "search_set"
    /\ \A u \in Threads \ {t} : ~Searching(u)
    /\ LET o == SearchSet(index, faiss_available, call[t].vectors, SearchK(call[t]),
                          SearchNProbe(call[t]))
       IN  /\ index' = o.ix
           /\ IF o.res = NoResult
              THEN /\ pc' = [pc EXCEPT ![t] = "search_run"]
                   /\ UNCHANGED ret
              ELSE Finish(t, AfterSearch(call[t], o.res))
    /\ UNCHANGED <<svars, faiss_available, num_gpus, device_room, lock, call, disk, saved,
                   loaded, n_adds>>

\* search, lines 114-127
SearchSetStep(t) ==
    /\ pc[t] = "search_set"
    /\ LET o == SearchSet(index, faiss_available, call[t].vectors, SearchK(call[t]),
                          SearchNProbe(call[t]))
       IN  /\ index' = o.ix
           /\ IF o.res = NoResult
              THEN /\ pc' = [pc EXCEPT ![t] = "search_run"]
                   /\ UNCHANGED ret
              ELSE Finish(t, AfterSearch(call[t], o.res))
    /\ UNCHANGED <<svars, faiss_available, num_gpus, device_room, lock, call, disk, saved,
                   loaded, n_adds>>

\* The end of a search: the caller gets r.
SearchRunDone(t, r) ==
    /\ pc[t] = "search_run"
    /\ Finish(t, r)
    /\ UNCHANGED <<svars, faiss_available, num_gpus, device_room, index, lock, call, disk,
                   saved, loaded, n_adds>>

\* search, lines 128-130, and for search_with_filter its lines 143-159
SearchRunStep(t) ==
    SearchRunDone(t, AfterSearch(call[t],
                                 SearchRun(index, call[t].vectors, SearchK(call[t]))))

Next ==
    \E t \in Threads :
        \/ Call(t)
        \/ Acquire(t)
        \/ TrainHostStep(t)
        \/ TrainSyncStep(t)
        \/ TrainFlagStep(t)
        \/ AddCheckStep(t)
        \/ AddHostStep(t)
        \/ AddSyncStep(t)
        \/ SearchSetStep(t)
        \/ SearchRunStep(t)

Spec == Init /\ [][Next]_vars

\* ------------------------------------------- one caller, one call at a time
Caller == CHOOSE t \in Threads : \A u \in Threads : t <= u

Batch(v, n) == [i \in 1 .. n |-> v]

ApiSamples == {SampleOfLen(n) : n \in 0 .. Max2(NList, KSub)}
ApiAdds ==
    {AddCall(Batch(Vec(0, 2), OVERFETCH), None),
     AddCall(<<Vec(0, 1), Vec(1, 2)>>, None),
     AddCall(<<Vec(2, 1), Vec(1, 2)>>, Some(<<5, NO_ID>>))}
ApiQueries == {<<Vec(0, MaxMag), Vec(2, 1)>>}
ApiFilters == {{}, {5, NO_ID}, {OVERFETCH, OVERFETCH + 1}}

Done(c, r) ==
    /\ call' = [call EXCEPT ![Caller] = c]
    /\ Finish(Caller, r)

ApiTrain(samples) ==
    \E s \in samples :
        \E o \in Train(index, faiss_available, num_gpus, device_room, s) :
            /\ index' = o.ix
            /\ Done(TrainCall(s), o.res)
            /\ UNCHANGED <<svars, faiss_available, num_gpus, device_room, lock, disk, saved,
                           loaded, n_adds>>

ApiAdd(adds) ==
    /\ n_adds < MaxAdds
    /\ \E c \in adds :
        /\ Size(index, faiss_available) + Len(c.vectors) <= MaxEntries
        /\ LET o == Add(index, faiss_available, num_gpus, device_room, c.vectors, c.ids)
           IN  /\ index' = o.ix
               /\ Done(c, o.res)
    /\ n_adds' = n_adds + 1
    /\ UNCHANGED <<svars, faiss_available, num_gpus, device_room, lock, disk, saved, loaded>>

ApiSearch ==
    \E q \in ApiQueries, k \in 1 .. MaxK, np \in {None, Some(1)} :
        LET o == Search(index, faiss_available, q, k, np)
        IN  /\ index' = o.ix
            /\ Done(SearchCall(q, k, np), o.res)
            /\ UNCHANGED <<svars, faiss_available, num_gpus, device_room, lock, disk, saved,
                           loaded, n_adds>>

ApiFilter ==
    \E q \in ApiQueries, k \in 1 .. MaxK, f \in ApiFilters :
        LET o == SearchWithFilter(index, faiss_available, q, k, f)
        IN  /\ index' = o.ix
            /\ Done(FilterCall(q, k, f), o.res)
            /\ UNCHANGED <<svars, faiss_available, num_gpus, device_room, lock, disk, saved,
                           loaded, n_adds>>

ApiNext ==
    \/ ApiTrain(ApiSamples)
    \/ ApiAdd(ApiAdds)
    \/ ApiSearch
    \/ ApiFilter

ApiSpec == Init /\ [][ApiNext]_vars

\* --------------------------------------------------- saving and loading
FittingAdds ==
    {AddCall(<<Vec(0, 2)>>, None), AddCall(<<Vec(1, 1), Vec(0, 1)>>, Some(<<5, 3>>))}
\* A batch whose rows are one number longer than config.dim.
MisfitAdd == AddCall(<<VecOfDim(0, 1, Dim + 1), VecOfDim(1, 1, Dim + 1)>>, None)
PersistAdds == FittingAdds \cup {MisfitAdd}

\* save(path)
ApiSave ==
    /\ disk' = Save(index, faiss_available, disk)
    /\ saved' = [called |-> TRUE, ix |-> index]
    /\ Done(SaveCall, Returned(<<>>))
    /\ UNCHANGED <<svars, faiss_available, num_gpus, device_room, index, lock, loaded, n_adds>>

\* The configs load is given: the one the index was built with, one of
\* another dim, one of another m.
LoadConfigs == {DefaultConfig, Config(2 * Dim, 1), Config(Dim, Dim)}

\* GPUVectorIndex.load(path, config)
ApiLoad ==
    /\ \E config \in LoadConfigs :
          LET o == Load(disk, config, faiss_available, num_gpus, device_room)
          IN  /\ Done(LoadCall(config), o.res)
              /\ loaded' = IF o.res.status = "ok"
                           THEN [made |-> TRUE, ix |-> o.ix, of |-> saved]
                           ELSE loaded
    /\ UNCHANGED <<svars, faiss_available, num_gpus, device_room, index, lock, disk, saved,
                   n_adds>>

PersistNext ==
    \/ ApiTrain(SharedSamples)
    \/ ApiAdd(PersistAdds)
    \/ ApiSave
    \/ ApiLoad

PersistSpec == Init /\ [][PersistNext]_vars

\* ------------------------------------------- devices that run out of memory
\* Other users of the devices take the memory a clone needs, or give it back.
OtherDeviceUse ==
    /\ device_room' = ~device_room
    /\ UNCHANGED <<svars, faiss_available, num_gpus, index, lock, pc, call, ret, disk, saved,
                   loaded, n_adds>>

DeviceNext ==
    \/ ApiTrain(SharedSamples)
    \/ ApiAdd(FittingAdds)
    \/ ApiSearch
    \/ OtherDeviceUse

DeviceSpec == Init /\ [][DeviceNext]_vars

\* ---------------------------------------------- searches with a given nprobe
\* A first sample that holds a zero row, and a second whose rows are all alike.
RecallSamples ==
    {[i \in 1 .. NList |->
        IF i = 1 THEN Vec(0, 1) ELSE IF i = 2 THEN Vec(0, 0) ELSE Vec(i % 4, 1)],
     Batch(Vec(2, 1), KSub)}
RecallAdds == {AddCall(<<Vec(1, 1), Vec(0, 1)>>, None), AddCall(<<Vec(3, 1)>>, None)}
RecallQueries == {<<Vec(1, 1)>>, <<Vec(3, MaxMag)>>}

\* search(queries, k, nprobe)
RecallSearch ==
    \E q \in RecallQueries, k \in 1 .. MaxK, n \in 1 .. NList :
        LET o == Search(index, faiss_available, q, k, Some(n))
        IN  /\ index' = o.ix
            /\ Done(SearchCall(q, k, Some(n)), o.res)
            /\ UNCHANGED <<svars, faiss_available, num_gpus, device_room, lock, disk, saved,
                           loaded, n_adds>>

RecallNext ==
    \/ ApiTrain(RecallSamples)
    \/ ApiAdd(RecallAdds)
    \/ RecallSearch

RecallSpec == Init /\ [][RecallNext]_vars

\* ------------------------------------------------ an index on several devices
\* config.num_gpus from 2 up, faiss importable.
ShardInit ==
    /\ StreamInit
    /\ faiss_available = TRUE
    /\ num_gpus \in 2 .. MaxShards
    /\ device_room = TRUE
    /\ index = NewIndex
    /\ lock = 0
    /\ pc = [t \in Threads |-> "idle"]
    /\ call = [t \in Threads |-> NoCall]
    /\ ret = [t \in Threads |-> NoResult]
    /\ disk = NoFile
    /\ saved = NotSaved
    /\ loaded = NotLoaded
    /\ n_adds = 0

ShardAdds == FittingAdds \cup RecallAdds

ShardNext ==
    \/ ApiTrain(SharedSamples)
    \/ ApiAdd(ShardAdds)

ShardSpec == ShardInit /\ [][ShardNext]_vars

\* ------------------------------------------------ batches with all-zero rows
ZeroAdds == {AddCall(<<Vec(0, 0), Vec(2, 1)>>, None), AddCall(<<Vec(1, 1)>>, None)}
ZeroQueries == {<<Vec(0, 0), Vec(1, 1)>>, <<Vec(2, MaxMag)>>}

\* search(queries, k)
ZeroSearch ==
    \E q \in ZeroQueries, k \in 1 .. MaxK :
        LET o == Search(index, faiss_available, q, k, None)
        IN  /\ index' = o.ix
            /\ Done(SearchCall(q, k, None), o.res)
            /\ UNCHANGED <<svars, faiss_available, num_gpus, device_room, lock, disk, saved,
                           loaded, n_adds>>

ZeroNext ==
    \/ ApiTrain(SharedSamples)
    \/ ApiAdd(ZeroAdds)
    \/ ZeroSearch

ZeroSpec == Init /\ [][ZeroNext]_vars

\* ------------------------------------------- writers under fair scheduling
\* A train that raises, a train that succeeds, an add.
WriterCalls ==
    {TrainCall(s) : s \in SharedSamples} \cup {AddCall(<<Vec(0, 2)>>, None)}

\* The steps of a train or add that holds the lock.
WriterStep(t) ==
    \/ TrainHostStep(t)
    \/ TrainSyncStep(t)
    \/ TrainFlagStep(t)
    \/ AddCheckStep(t)
    \/ AddHostStep(t)
    \/ AddSyncStep(t)

LockNext ==
    \/ \E t \in Threads :
          \/ CallFrom(t, WriterCalls)
          \/ Acquire(t)
          \/ WriterStep(t)
    \/ OtherDeviceUse

\* A thread inside the with block keeps running: WF_vars(WriterStep(t)),
\* written out with Writing(t) for ENABLED <<WriterStep(t)>>_vars (a step of
\* the with block waits for nothing and always moves pc).  A thread waiting
\* for the lock gets it if the lock is free again and again.
LockFairness ==
    \A t \in Threads :
        /\ []<>(~Writing(t)) \/ []<><<WriterStep(t)>>_vars
        /\ SF_vars(Acquire(t))

LockSpec == Init /\ [][LockNext]_vars /\ LockFairness

\* ------------------------------------------------------ the event consumer
\* The events emitted since the client was made.
Emitted(table) == Cardinality({i \in 1 .. Len(table) : Loads(table[i].payload) \in Msgs})

\* The client starts on an empty table or on one that holds a backlog; the
\* index takes no part.
ConsumeInit ==
    /\ system_events \in {<<>>, Backlog}
    /\ handlers = [t \in Topics |-> NoFunc]
    /\ events = <<>>
    /\ consumer = "sleep"
    /\ handled = <<>>
    /\ db_up = TRUE
    /\ faiss_available = FALSE
    /\ num_gpus = 0
    /\ device_room = TRUE
    /\ index = NewIndex
    /\ lock = 0
    /\ pc = [t \in Threads |-> "idle"]
    /\ call = [t \in Threads |-> NoCall]
    /\ ret = [t \in Threads |-> NoResult]
    /\ disk = NoFile
    /\ saved = NotSaved
    /\ loaded = NotLoaded
    /\ n_adds = 0

\* @client.subscriber(topic) applied to func
subscriber ==
    \E topic \in Topics, func \in Funcs :
        /\ handlers' = [handlers EXCEPT ![topic] = func]
        /\ UNCHANGED <<ivars, system_events, events, consumer, handled, db_up>>

\* emit(topic, msg) / _emit_sync: the row is inserted, or the error of the
\* database is logged and nothing inserted.
emit ==
    \E topic \in Topics, msg \in Msgs :
        /\ Emitted(system_events) < MaxEmits
        /\ system_events' = IF db_up THEN Append(system_events, NewRow(topic, msg))
                            ELSE system_events
        /\ UNCHANGED <<ivars, handlers, events, consumer, handled, db_up>>

\* A loop that a failed pass ends.
PassRaisedEndsLoop ==
    /\ consumer' = "stopped"
    /\ events' = <<>>

\* consume_loop, lines 93-96: the error of a pass is logged, the pass is over
\* and the loop sleeps until the next one.
PassRaised ==
    /\ consumer' = "sleep"
    /\ events' = <<>>

\* _consume_once, lines 99-107: the pass fetches its events, or raises.
ConsumeFetch ==
    /\ consumer = "sleep"
    /\ IF db_up
       THEN /\ events' = Fetch(system_events)
            /\ consumer' = "pass"
       ELSE PassRaised
    /\ UNCHANGED <<ivars, system_events, handlers, handled, db_up>>

\* _consume_once, lines 109-128, for one event: the handler of its topic, if
\* there is one, is looked up and not called (`pass`); the row is marked
\* processed and the transaction committed, or the UPDATE raises.
ConsumeEvent ==
    /\ consumer = "pass"
    /\ events # <<>>
    /\ LET event == Head(events)
           topic == system_events[event].topic
           payload == Loads(system_events[event].payload)
       IN  /\ handled' = IF handlers[topic] # NoFunc THEN handled ELSE handled
           /\ IF db_up
              THEN /\ system_events' = [system_events EXCEPT ![event].processed = TRUE]
                   /\ events' = Tail(events)
                   /\ UNCHANGED consumer
              ELSE /\ PassRaised
                   /\ UNCHANGED system_events
    /\ UNCHANGED <<ivars, handlers, db_up>>

\* _consume_once, line 130, and consume_loop's sleep until the next pass.
ConsumeEnd ==
    /\ consumer = "pass"
    /\ events = <<>>
    /\ consumer' = "sleep"
    /\ UNCHANGED <<ivars, system_events, handlers, events, handled, db_up>>

ConsumeNext ==
    \/ subscriber
    \/ emit
    \/ ConsumeFetch
    \/ ConsumeEvent
    \/ ConsumeEnd

ConsumeSpec == ConsumeInit /\ [][ConsumeNext]_vars

\* ------------------------------------------- a database that comes and goes
DatabaseChange ==
    /\ db_up' = ~db_up
    /\ UNCHANGED <<ivars, system_events, handlers, events, consumer, handled>>

SurviveNext ==
    \/ emit
    \/ ConsumeFetch
    \/ ConsumeEvent
    \/ ConsumeEnd
    \/ DatabaseChange

\* consume_loop keeps running: after its sleep it starts a pass, and a pass
\* goes through its statements.
SurviveFairness ==
    WF_vars(ConsumeFetch) /\ WF_vars(ConsumeEvent) /\ WF_vars(ConsumeEnd)

SurviveSpec == ConsumeInit /\ [][SurviveNext]_vars /\ SurviveFairness

\* ------------------------------------------------------------- the claims

\* C1: add is rejected with UntrainedIndexError exactly when the index is
\* Untrained at its state check; a rejected add leaves the index (its size and
\* its state) as it was and ends the call, an add that finds the index Trained
\* goes on to store its rows, whatever the other threads did meanwhile; and no
\* other call ends with that error.
C1_AddRejectedIffUntrained ==
    [][\A t \in Threads :
          /\ (pc[t] = "add_check" /\ pc'[t] # "add_check") =>
                /\ (ret'[t].status = UntrainedIndexError) <=> ~index.is_trained
                /\ ~index.is_trained =>
                      /\ pc'[t] = "done"
                      /\ index' = index
                      /\ Size(index', faiss_available) = Size(index, faiss_available)
                /\ index.is_trained => pc'[t] = "add_host" /\ ret'[t] = NoResult
          /\ (ret'[t].status = UntrainedIndexError /\ ret[t].status # UntrainedIndexError)
                => pc[t] = "add_check"]_vars

\* One add was rejected before training, and another stored its row after it.
C1_Witness ==
    \E t, u \in Threads :
        /\ pc[t] = "done" /\ call[t].op = "add"
        /\ ret[t].status = UntrainedIndexError
        /\ pc[u] = "done" /\ call[u].op = "add" /\ ret[u].status = "ok"
        /\ Size(index, faiss_available) > 0

\* C2: a search or search_with_filter made while the index is Untrained ends
\* with UntrainedIndexError.
C2_SearchUntrainedRaises ==
    (/\ pc[Caller] = "done"
     /\ call[Caller].op \in {"search", "search_with_filter"}
     /\ ~index.is_trained)
        => ret[Caller].status = UntrainedIndexError

\* C3: the index becomes Trained only by a train call that returns and was
\* given a non-empty sample, and never becomes Untrained again.
C3_TrainedOnlyByTrain ==
    [][/\ (~index.is_trained /\ index'.is_trained) =>
              /\ call'[Caller].op = "train"
              /\ ret'[Caller].status = "ok"
              /\ call'[Caller].vectors # <<>>
       /\ index.is_trained => index'.is_trained]_vars

\* C4: a train call on an Untrained index with fewer than nlist vectors ends
\* with InsufficientTrainingDataError and leaves the index Untrained.
C4_ShortSampleRejected ==
    [][(/\ call'[Caller].op = "train"
        /\ pc'[Caller] = "done"
        /\ Len(call'[Caller].vectors) < NList
        /\ ~index.is_trained)
          => /\ ret'[Caller].status = InsufficientTrainingDataError
             /\ ~index'.is_trained]_vars

\* C5: at most one thread is inside train or add between taking and releasing
\* the lock, and a thread is there (from the state check of add and the first
\* line of train to the device rebuild and the setting of is_trained) only
\* while it holds the lock.
C5_WritersExclusive ==
    \A t, u \in Threads :
        /\ Writing(t) => lock = t
        /\ (Writing(t) /\ Writing(u)) => t = u

\* One thread is inside add or train while another waits for the lock.
C5_Witness ==
    \E t, u \in Threads :
        /\ t # u
        /\ pc[t] \in {"add_sync", "train_sync"}
        /\ pc[u] \in {"train_lock", "add_lock"}

\* C6: no search or search_with_filter is between writing its nprobe into the
\* device index and reading its results from it while a train or add is
\* between taking and releasing the lock.
C6_NoSearchDuringWrite ==
    \A t, u \in Threads : pc[t] = "search_run" => ~Writing(u)

\* The stored entries a search for q would scan: those of the probed clusters
\* (without faiss the index keeps one list, and all of it counts).
StoredInProbed(ix, q, nprobe) ==
    IF ~faiss_available THEN Len(ix.mock_vectors)
    ELSE Len(ScanOrder(ix.cpu_index.entries,
                       Probes(ix.cpu_index.centroids, Normalize(q),
                              IF nprobe.some THEN Get(nprobe) ELSE ConfigNProbe)))

RealSlots(row) == {s \in 1 .. Len(row) : row[s] # <<INF, NO_ID>>}

\* C7: on a Trained index search raises nothing and gives every query exactly
\* k slots, of which min(k, stored entries of the probed clusters) hold a
\* match and the others hold (+infinity, -1).
C7_SearchPadsWithSentinels ==
    (/\ pc[Caller] = "done"
     /\ call[Caller].op = "search"
     /\ index.is_trained)
        => /\ ret[Caller].status = "ok"
           /\ Len(ret[Caller].out) = Len(call[Caller].vectors)
           /\ \A i \in 1 .. Len(ret[Caller].out) :
                 LET row == ret[Caller].out[i]
                     n == Min2(call[Caller].k,
                               StoredInProbed(index, call[Caller].vectors[i],
                                              call[Caller].nprobe))
                 IN  /\ Len(row) = call[Caller].k
                     /\ RealSlots(row) = 1 .. n

\* C8: every id search_with_filter returns is in the allowed set or is -1, and
\* a slot with id -1 holds the distance +infinity.
C8_FilterOnlyAllowedIds ==
    (/\ pc[Caller] = "done"
     /\ call[Caller].op = "search_with_filter"
     /\ ret[Caller].status = "ok")
        => \A i \in 1 .. Len(ret[Caller].out) :
               \A s \in 1 .. Len(ret[Caller].out[i]) :
                   LET p == ret[Caller].out[i][s]
                   IN  /\ p[2] \in call[Caller].filter_ids \cup {NO_ID}
                       /\ p[2] = NO_ID => p[1] = INF

\* The positions of a row whose id is allowed, and the s-th of them.
AllowedAt(row, allowed) == {j \in 1 .. Len(row) : row[j][2] \in allowed}
NthAllowed(row, allowed, s) ==
    CHOOSE j \in AllowedAt(row, allowed) :
        Cardinality({h \in AllowedAt(row, allowed) : h < j}) = s - 1

\* C9: search_with_filter gives each query k slots: the first k of the
\* candidates the unfiltered search for k * 10 gives whose id is allowed, in
\* that search's order (increasing distance), then (+infinity, -1); nothing
\* beyond those k * 10 candidates is ever returned.
C9_FilterIsOverfetchThenFilter ==
    (/\ pc[Caller] = "done"
     /\ call[Caller].op = "search_with_filter"
     /\ ret[Caller].status = "ok")
        => LET c == call[Caller]
               wide == Search(index, faiss_available, c.vectors, c.k * OVERFETCH,
                              None).res.out
           IN  /\ Len(ret[Caller].out) = Len(c.vectors)
               /\ \A i \in 1 .. Len(c.vectors) :
                     LET row == ret[Caller].out[i]
                         m == Cardinality(AllowedAt(wide[i], c.filter_ids))
                     IN  /\ Len(wide[i]) = c.k * OVERFETCH
                         /\ Len(row) = c.k
                         /\ \A s \in 1 .. c.k :
                               /\ s <= m => row[s] = wide[i][NthAllowed(wide[i], c.filter_ids, s)]
                               /\ s > m => row[s] = <<INF, NO_ID>>
                         /\ \A s \in 1 .. c.k - 1 : row[s][1] <= row[s + 1][1]

\* A filtered search for k = 1 came back without a match although more than k
\* stored entries carry an allowed id: they lie beyond the k * 10 candidates.
C9_Witness ==
    /\ pc[Caller] = "done"
    /\ call[Caller].op = "search_with_filter"
    /\ ret[Caller].status = "ok"
    /\ call[Caller].k = 1
    /\ ret[Caller].out[1] = <<(<<INF, NO_ID>>)>>
    /\ Cardinality({j \in 1 .. Len(index.cpu_index.entries) :
                       index.cpu_index.entries[j].id \in call[Caller].filter_ids})
           > call[Caller].k

\* C10: an index that was trained, saved as it is now, and loaded again has the
\* size of the original and answers every search as the original does.
C10_SaveLoadRoundTrip ==
    (/\ loaded.made
     /\ loaded.of.called
     /\ loaded.of.ix = index
     /\ index.is_trained)
        => /\ Size(loaded.ix, faiss_available) = Size(index, faiss_available)
           /\ \A q \in ApiQueries, k \in 1 .. MaxK, np \in {None, Some(1)} :
                 Search(loaded.ix, faiss_available, q, k, np).res
                     = Search(index, faiss_available, q, k, np).res

\* C11: the index load returns is Trained, and an add and a search made on it
\* right away, without a train call, are accepted.
C11_LoadYieldsTrained ==
    (/\ loaded.made
     /\ loaded.of.called
     /\ loaded.of.ix.is_trained)
        => /\ loaded.ix.is_trained
           /\ \A c \in FittingAdds :
                 Add(loaded.ix, faiss_available, num_gpus, device_room, c.vectors,
                     c.ids).res.status = "ok"
           /\ \A q \in ApiQueries :
                 Search(loaded.ix, faiss_available, q, MaxK, None).res.status = "ok"

\* The error the design names for a file that does not fit the config.
IncompatibleIndexFormatError == "IncompatibleIndexFormatError"

\* C12: a load of a file whose saved dim or m differs from the dim or m of the
\* config given to load ends with IncompatibleIndexFormatError and returns no
\* index; the index that was saved is left as it is.
C12_LoadRejectsMismatch ==
    [][(/\ call'[Caller].op = "load"
        /\ disk.written
        /\ \/ call'[Caller].config.dim # disk.cpu_index.d
           \/ call'[Caller].config.m # disk.cpu_index.m)
          => /\ ret'[Caller].status = IncompatibleIndexFormatError
             /\ loaded' = loaded
             /\ index' = index]_vars

\* C13: a train or add call that ends with a device resource error leaves the
\* index as it was: the same size, the same trained state, the same answer to
\* every search, and a device index that holds the entries of the host index.
C13_DeviceFailureKeepsState ==
    [][(/\ call'[Caller].op \in {"train", "add"}
        /\ ret'[Caller].status = DeviceOutOfMemory)
          => /\ Size(index', faiss_available) = Size(index, faiss_available)
             /\ index'.is_trained = index.is_trained
             /\ \A q \in ApiQueries, k \in 1 .. MaxK, np \in {None, Some(1)} :
                   Search(index', faiss_available, q, k, np).res
                       = Search(index, faiss_available, q, k, np).res
             /\ index'.gpu_index.entries = index'.cpu_index.entries]_vars

\* C14: a call changes the size only if it is an add that returns, and that
\* add raises it by the number of vectors it was given; train, search,
\* search_with_filter, save and every call that fails leave the size as it is.
C14_SizeCountsAddedVectors ==
    [][Size(index', faiss_available) =
           Size(index, faiss_available)
               + (IF n_adds' # n_adds /\ ret'[Caller].status = "ok"
                  THEN Len(call'[Caller].vectors) ELSE 0)]_vars

\* The least distance from a query to a stored vector, both normalized.
NearestStored(vs, q) ==
    LET d(j) == Dist(Normalize(q), Normalize(vs[j]))
    IN  d(CHOOSE a \in 1 .. Len(vs) : \A b \in 1 .. Len(vs) : d(a) <= d(b))

\* C15: on an index with zero devices, or built without the accelerator
\* library, a search made after train and add does not fail and gives what
\* the accelerated index gives: with the library the rows a device clone of
\* the host index answers with, without it a nearest stored vector first.
C15_HostOnlySearchFindsNeighbours ==
    (/\ pc[Caller] = "done"
     /\ call[Caller].op = "search"
     /\ index.is_trained
     /\ Size(index, faiss_available) > 0
     /\ ~faiss_available \/ num_gpus = 0)
        => /\ ret[Caller].status = "ok"
           /\ faiss_available =>
                 ret[Caller] = Search(SyncToGpu(index, TRUE, MaxGpus), TRUE,
                                      call[Caller].vectors, call[Caller].k,
                                      call[Caller].nprobe).res
           /\ ~faiss_available =>
                 \A i \in 1 .. Len(call[Caller].vectors) :
                     ret[Caller].out[i][1][1]
                         = NearestStored(index.mock_vectors, call[Caller].vectors[i])

\* C16: an add whose batch holds a vector of another length than the
\* configured dim fails, and stores nothing: the size stays as it was.
C16_MisfitBatchRejected ==
    [][(/\ n_adds' # n_adds
        /\ \E j \in 1 .. Len(call'[Caller].vectors) :
               call'[Caller].vectors[j].dim # index.config.dim)
          => /\ ret'[Caller].status # "ok"
             /\ Size(index', faiss_available) = Size(index, faiss_available)]_vars

RECURSIVE InsertByDistanceThenId(_, _)
\* A (distance, id) pair put into a list kept in increasing distance, pairs at
\* one distance in increasing id.
InsertByDistanceThenId(p, s) ==
    IF \/ s = <<>>
       \/ p[1] < Head(s)[1]
       \/ p[1] = Head(s)[1] /\ p[2] <= Head(s)[2]
    THEN <<p>> \o s
    ELSE <<Head(s)>> \o InsertByDistanceThenId(p, Tail(s))

RECURSIVE ByDistanceThenId(_)
ByDistanceThenId(s) ==
    IF s = <<>> THEN <<>>
    ELSE InsertByDistanceThenId(Head(s), ByDistanceThenId(Tail(s)))

\* The (distance, id) pairs of the stored entries a search for q is to choose
\* from: with faiss the entries of the probed clusters at their approximate
\* distance, without it the stored rows under their position.
Candidates(ix, q, nprobe) ==
    IF ~faiss_available
    THEN [j \in 1 .. Len(ix.mock_vectors) |->
            <<Dist(Normalize(q), Normalize(ix.mock_vectors[j])), j - 1>>]
    ELSE LET cand == ScanOrder(ix.cpu_index.entries,
                               Probes(ix.cpu_index.centroids, Normalize(q),
                                      IF nprobe.some THEN Get(nprobe) ELSE ConfigNProbe))
         IN  [j \in 1 .. Len(cand) |->
                <<ApproxDist(ix.cpu_index, Normalize(q), cand[j]), cand[j].id>>]

\* C17: the results search returns on a Trained index are, slot by slot, the
\* stored entries of the probed clusters in increasing approximate distance,
\* entries at one distance in increasing id, as far as k and the entries go.
C17_SearchReturnsNearestInOrder ==
    (/\ pc[Caller] = "done"
     /\ call[Caller].op = "search"
     /\ index.is_trained
     /\ ret[Caller].status = "ok")
        => \A i \in 1 .. Len(call[Caller].vectors) :
               LET best == ByDistanceThenId(Candidates(index, call[Caller].vectors[i],
                                                       call[Caller].nprobe))
               IN  \A s \in 1 .. Min2(call[Caller].k, Len(best)) :
                       ret[Caller].out[i][s] = best[s]

\* The clusters a search for q with the given nprobe scans.
ProbedSet(ix, q, n) ==
    LET p == Probes(ix.gpu_index.centroids, Normalize(q), n)
    IN  {p[r] : r \in 1 .. Len(p)}

\* The ids of the stored entries that belong to the exact top k of q: fewer
\* than k stored entries are strictly nearer to q (entries at the same exact
\* distance all count).
TrueTopK(ix, q, k) ==
    LET es == ix.cpu_index.entries
        d(j) == Dist(Normalize(q), es[j].vec)
    IN  {es[j].id : j \in {a \in 1 .. Len(es) :
                             Cardinality({b \in 1 .. Len(es) : d(b) < d(a)}) < k}}

\* How many slots of search(q, k, nprobe = n) hold an entry of the exact top k.
Hits(ix, q, k, n) ==
    LET row == Search(ix, TRUE, <<q>>, k, Some(n)).res.out[1]
    IN  Cardinality({s \in 1 .. k : row[s][2] \in TrueTopK(ix, q, k)})

\* C18: on a fixed index, query and k, a larger nprobe scans a superset of the
\* clusters and its result holds at least as many entries of the exact top k.
C18_RecallMonotoneInNProbe ==
    (/\ faiss_available
     /\ index.is_trained
     /\ index.gpu_index.present)
        => \A q \in RecallQueries, k \in 1 .. MaxK, n1 \in 1 .. NList, n2 \in 1 .. NList :
               n1 <= n2 =>
                   /\ ProbedSet(index, q[1], n1) \subseteq ProbedSet(index, q[1], n2)
                   /\ Hits(index, q[1], k, n1) <= Hits(index, q[1], k, n2)

\* C19: while no thread is inside train or add, the index search reads holds
\* exactly the entries of the host index, the entries size counts: there is
\* a device index as soon as there are entries, and it has them all.
C19_DeviceHoldsHostEntries ==
    (/\ faiss_available
     /\ \A t \in Threads : ~Writing(t))
        => /\ index.gpu_index.entries = index.cpu_index.entries
           /\ Size(index, faiss_available) > 0 => index.gpu_index.present

\* The index without the nprobe last written into its device index.
SansNProbe(ix) == [ix EXCEPT !.gpu_index.nprobe = 0]

\* C20: a step of search or search_with_filter leaves the trained state, the
\* size, the host index with its entries, centroids and codebook, and the
\* entries, centroids and codebook of the device index as they were (it
\* writes nothing but the nprobe of the device index), and every search and
\* add made on the index after the step gives what it would have given
\* before it.
C20_SearchIsReadOnly ==
    [][\A t \in Threads :
          (Searching(t) /\ pc'[t] # pc[t]) =>
              /\ index'.is_trained = index.is_trained
              /\ index'.config = index.config
              /\ Size(index', faiss_available) = Size(index, faiss_available)
              /\ index'.cpu_index = index.cpu_index
              /\ index'.mock_vectors = index.mock_vectors
              /\ SansNProbe(index') = SansNProbe(index)
              /\ index' # index => \A c \in SharedCalls :
                    /\ c.op \in {"search", "search_with_filter"} =>
                          AfterSearch(c, Search(index', faiss_available, c.vectors,
                                                SearchK(c), SearchNProbe(c)).res)
                              = AfterSearch(c, Search(index, faiss_available, c.vectors,
                                                      SearchK(c), SearchNProbe(c)).res)
                    /\ c.op = "add" =>
                          LET after == Add(index', faiss_available, num_gpus,
                                           device_room, c.vectors, c.ids)
                              before == Add(index, faiss_available, num_gpus,
                                            device_room, c.vectors, c.ids)
                          IN  /\ after.res = before.res
                              /\ SansNProbe(after.ix) = SansNProbe(before.ix)]_vars

\* A search has returned rows from an index that holds entries, and has left
\* its nprobe in the device index.
C20_Witness ==
    \E t \in Threads :
        /\ pc[t] = "done"
        /\ call[t].op \in {"search", "search_with_filter"}
        /\ ret[t].status = "ok"
        /\ faiss_available
        /\ Size(index, faiss_available) > 0
        /\ index.gpu_index.nprobe # index.cpu_index.nprobe

\* The nprobe a call of search is to scan with: the one it was given, or
\* config.nprobe when it was given none.
IntendedNProbe(c) ==
    IF SearchNProbe(c).some THEN Get(SearchNProbe(c)) ELSE ConfigNProbe

\* C21: the rows a search returns are those a scan of the device index with
\* the search's own nprobe gives, whatever other searches, adds and trains
\* did between its writing the nprobe and its scan.
C21_SearchUsesOwnNProbe ==
    [][\A t \in Threads :
          (pc[t] = "search_run" /\ pc'[t] = "done") =>
              ret'[t] = AfterSearch(call[t],
                            SearchRun([index EXCEPT
                                          !.gpu_index.nprobe = IntendedNProbe(call[t])],
                                      call[t].vectors, SearchK(call[t])))]_vars


\* C22: once the index is Trained, no call changes the centroid table or the
\* codebook of the host index.
C22_TrainedTablesFixed ==
    [][index.is_trained =>
          /\ index'.cpu_index.centroids = index.cpu_index.centroids
          /\ index'.cpu_index.codebook = index.cpu_index.codebook]_vars

\* What the index keeps of an entry.
Stored(entries) ==
    [i \in 1 .. Len(entries) |->
        [id |-> entries[i].id, cluster |-> entries[i].cluster, code |-> entries[i].code]]

IsPrefix(a, b) == Len(a) <= Len(b) /\ SubSeq(b, 1, Len(a)) = a

\* C23: no call removes or rewrites a stored entry, on the host, on the devices
\* or in the mock list: what was stored before a step is a prefix of what is
\* stored after it, and an add that succeeds puts its rows behind that prefix.
C23_EntriesAppendOnly ==
    [][/\ IsPrefix(Stored(index.cpu_index.entries), Stored(index'.cpu_index.entries))
       /\ IsPrefix(index.mock_vectors, index'.mock_vectors)
       /\ index.gpu_index.present =>
              /\ index'.gpu_index.present
              /\ IsPrefix(Stored(index.gpu_index.entries),
                          Stored(index'.gpu_index.entries))
       /\ (n_adds' # n_adds /\ ret'[Caller].status = "ok") =>
              Size(index', faiss_available)
                  = Size(index, faiss_available) + Len(call'[Caller].vectors)]_vars

\* An add has succeeded on an index that already held entries.
C23_Witness ==
    /\ call[Caller].op = "add"
    /\ ret[Caller].status = "ok"
    /\ faiss_available
    /\ Len(index.cpu_index.entries) > Len(call[Caller].vectors)
    /\ index.cpu_index.entries[1].id # index.cpu_index.entries[Len(index.cpu_index.entries)].id

\* The ids a search over every cluster, asked for as many neighbours as the
\* index holds entries, returns for one query.
ReturnedIds(ix) ==
    LET k == Size(ix, faiss_available)
        o == Search(ix, faiss_available, <<Vec(0, 1)>>, k, Some(NList))
    IN  IF k = 0 THEN <<>>
        ELSE IF o.res.status # "ok" THEN <<NO_ID - 1>>
        ELSE [s \in 1 .. k |-> o.res.out[1][s][2]]

\* The ids an add is to store its rows under.
IdsToStore(c, n0) ==
    [j \in 1 .. Len(c.vectors) |-> IF c.ids.some THEN Get(c.ids)[j] ELSE n0 + j - 1]

Count(s, x) == Cardinality({i \in 1 .. Len(s) : s[i] = x})

\* C24: an add that succeeds raises the size by the length of its batch, and a
\* search can return every id it was to store (the supplied one, or the number
\* of entries before the call plus the row's position) once more than before,
\* also an id that was present already.
C24_IdsStoredAsGiven ==
    [][(n_adds' # n_adds /\ ret'[Caller].status = "ok") =>
          LET n0 == Size(index, faiss_available)
              new == IdsToStore(call'[Caller], n0)
              before == ReturnedIds(index)
              after == ReturnedIds(index')
          IN  /\ Size(index', faiss_available) = n0 + Len(new)
              /\ \A x \in {new[j] : j \in 1 .. Len(new)} :
                     Count(after, x) = Count(before, x) + Count(new, x)]_vars

RECURSIVE SumLen(_, _)
SumLen(f, n) == IF n = 0 THEN 0 ELSE Len(f[n - 1]) + SumLen(f, n - 1)

\* C25: on more than one device every entry is on the device that owns its
\* cluster (cluster id modulo the number of devices), and the devices
\* together hold every entry once.
C25_ShardedByCluster ==
    (num_gpus > 1 /\ index.gpu_index.present) =>
        LET shards == ShardEntries(index.gpu_index, num_gpus)
        IN  /\ \A s \in 0 .. num_gpus - 1 :
                   \A i \in 1 .. Len(shards[s]) : shards[s][i].cluster % num_gpus = s
            /\ SumLen(shards, num_gpus) = Len(index.gpu_index.entries)

\* C26: a thread that is not in a call can always start a search, and a thread
\* in a search can always take the search's next step, whatever the other
\* threads are doing: a search takes at most two steps and none waits.
C26_SearchNeverWaits ==
    \A t \in Threads :
        /\ pc[t] \in {"idle", "done"} =>
               ENABLED (Call(t) /\ call'[t].op \in {"search", "search_with_filter"})
        /\ pc[t] = "search_set" => ENABLED SearchSetStep(t)
        /\ pc[t] = "search_run" =>
               \E r \in {AfterSearch(call[t],
                                     SearchRun(index, call[t].vectors, SearchK(call[t])))} :
                   ENABLED SearchRunDone(t, r)

\* Two threads are in a search at once, one past its first step.
C26_Witness ==
    \E t, u \in Threads :
        /\ t # u
        /\ pc[t] = "search_run"
        /\ pc[u] = "search_set"

Waiting(t) == pc[t] \in {"train_lock", "add_lock"}

\* C27: the lock is held by a thread exactly while the thread is inside the
\* with block of train or add, so every return and every raise gives it back;
\* and a call waiting for the lock enters its with block in the end.
C27_LockAlwaysReleased ==
    /\ [](\A t \in Threads : lock = t <=> Writing(t))
    /\ \A t \in Threads : Waiting(t) ~> Writing(t)

\* A call waits for the lock another thread holds, after a call has raised.
C27_Witness ==
    \E t, u \in Threads :
        /\ Waiting(t)
        /\ Writing(u)
        /\ lock = u
        /\ index.is_trained
        /\ device_room = FALSE

HasZero(batch) == \E i \in 1 .. Len(batch) : batch[i].mag = 0

\* The batch with a unit vector in the place of every all-zero row.
Cleaned(batch) ==
    [i \in 1 .. Len(batch) |-> IF batch[i].mag = 0 THEN Vec(0, 1) ELSE batch[i]]

\* C28: an all-zero row never makes add or search fail: a call given a batch
\* with such a row ends as the call given the batch without it would have,
\* and when it succeeds add has stored every row of the batch and search
\* returns k pairs for every row.
C28_ZeroRowNeverFailsBatch ==
    [][LET c == call'[Caller]
           r == ret'[Caller]
       IN  /\ (c.op = "add" /\ HasZero(c.vectors)) =>
                  /\ r.status = Add(index, faiss_available, num_gpus, device_room,
                                    Cleaned(c.vectors), c.ids).res.status
                  /\ r.status = "ok" =>
                         Size(index', faiss_available)
                             = Size(index, faiss_available) + Len(c.vectors)
           /\ (c.op = "search" /\ HasZero(c.vectors)) =>
                  /\ r.status = Search(index, faiss_available, Cleaned(c.vectors),
                                       c.k, c.nprobe).res.status
                  /\ r.status = "ok" =>
                         /\ Len(r.out) = Len(c.vectors)
                         /\ \A i \in 1 .. Len(r.out) : Len(r.out[i]) = c.k]_vars

\* A batch with an all-zero row was added to a Trained index and an all-zero
\* query was answered from it.
C28_Witness ==
    /\ call[Caller].op = "search"
    /\ HasZero(call[Caller].vectors)
    /\ ret[Caller].status = "ok"
    /\ faiss_available
    /\ \E i \in 1 .. Len(index.cpu_index.entries) : index.cpu_index.entries[i].vec.mag = 0

C30_HandlerRunsBeforeProcessed ==
    [][\A i \in 1 .. Len(system_events) :
          LET row == system_events[i]
          IN  (/\ ~row.processed
               /\ system_events'[i].processed
               /\ handlers[row.topic] # NoFunc) =>
                  \E j \in 1 .. Len(handled') :
                      handled'[j] = [func |-> handlers[row.topic],
                                     payload |-> Loads(row.payload)]]_vars

\* C31: a pass that raises never ends the loop; a row marked processed stays
\* processed, also when the pass that marked it raised later; and if the
\* database stays up from some time on, every row is processed in the end.
C31_LoopSurvivesFailedPass ==
    /\ [](consumer \in {"sleep", "pass"})
    /\ [][\A i \in 1 .. Len(system_events) :
             system_events[i].processed =>
                 /\ i <= Len(system_events')
                 /\ system_events'[i].processed]_vars
    /\ <>[]db_up => <>[](Unprocessed(system_events) = <<>>)

\* A pass has raised between two events of its batch: the loop sleeps, the
\* first row is processed and the second is not.
C31_Witness ==
    /\ consumer = "sleep"
    /\ Len(system_events) > 1
    /\ system_events[1].processed
    /\ ~system_events[2].processed
    /\ ~db_up

====
